---- MODULE Spec2Model ----
(***************************************************************************)
(* The signup page of src/app/auth/signup/page.jsx as a state machine.     *)
(*                                                                         *)
(* State: the React state of the Signup component (the registration       *)
(* draft, error, isLoading, showSuccess), the activations of handleSubmit  *)
(* suspended at an await (runs), the timers set by setTimeout (timers),    *)
(* the router (location, pushes) and the two external services (accounts   *)
(* of the auth service, profiles of the users table).                      *)
(*                                                                         *)
(* A JavaScript string on which the code works character by character      *)
(* (email.split('@'), the student-ID regular expression) is a tuple of     *)
(* one-character strings; the other strings are TLA+ strings.  A value     *)
(* that may be null (student_id) is a set with at most one element.        *)
(*                                                                         *)
(* handleSubmit is invoked with whatever the draft holds: the browser's    *)
(* own constraint validation (the inputs' required/type attributes) is not *)
(* part of the handler and is not modelled.  State setters are modelled as *)
(* taking effect whether or not the page is still shown.                   *)
(***************************************************************************)
EXTENDS Integers, Sequences, FiniteSets, TLC

VARIABLES email, password, confirmPassword, firstName, lastName, studentId, role,
          error, isLoading, showSuccess,
          runs, timers, editsInFlight,
          location, pushes,
          accounts, profiles,
          last

draft == <<email, password, confirmPassword, firstName, lastName, studentId, role>>
flags == <<error, isLoading, showSuccess>>
services == <<accounts, profiles>>
vars == <<email, password, confirmPassword, firstName, lastName, studentId, role,
          error, isLoading, showSuccess, runs, timers, editsInFlight,
          location, pushes, accounts, profiles, last>>

(***************************************************************************)
(* Bounds of the model.                                                    *)
(***************************************************************************)
\* handleSubmit activations that may be suspended at the same time.
MaxRuns == 2
\* Field edits made while a submission or its redirect timer is pending.
MaxEditsInFlight == 1
\* Accounts the auth service can create (the identifiers it can hand out).
MaxAccounts == 2

(***************************************************************************)
(* Values.                                                                 *)
(***************************************************************************)
Null == "null"
\* authData.user when the auth service created no account.
NoUser == 0

SignupPath == "/auth/signup"
StudentDashboard == "/dashboard/student"
AdminDashboard == "/dashboard/admin"
LinkHrefs == {"/", "/auth/login"}

AshesiDomain == <<"a","s","h","e","s","i",".","e","d","u",".","g","h">>
AucampusDomain == <<"a","u","c","a","m","p","u","s",".","o","n","m","i","c","r","o","s","o","f","t",".","c","o","m">>
GmailDomain == <<"g","m","a","i","l",".","c","o","m">>

PasswordMismatchMsg == "Passwords don't match"
EmailDomainMsg == "Only Ashesi email addresses are allowed (ashesi.edu.gh or aucampus.onmicrosoft.com)"
StudentIdRequiredMsg == "Student ID is required"
StudentIdFormatMsg == "Invalid Student ID format. Expected format: XXXX20XX"
WeakPasswordMsg == "Password does not meet the strength requirements"
ProfilePasswordPlaceholder == "hashed_by_supabase"
RedirectDelayMs == 5000

\* The values the user types into the fields.
EmailValues == { <<>>,
                 <<"k","@">> \o AshesiDomain,
                 <<"k","@">> \o AucampusDomain,
                 <<"k","@">> \o GmailDomain,
                 <<"k","@","x","@">> \o AshesiDomain }
PasswordValues == {"", "Abc123!@"}
FirstNameValues == {"", "Eddie"}
LastNameValues == {"", "Kay"}
StudentIdValues == { <<>>,
                     <<"1","2","3","4","2","0","2","3">>,
                     <<"1","2","3","4","0","0","9","9">>,
                     <<"1","2","3","4">>,
                     <<"1","2","3","4","2","0","2","3","1">>,
                     <<"a","2","3","4","2","0","2","3">> }
RoleValues == {"student", "admin"}

\* What the external services answer.
UserIds == 1..MaxAccounts
AuthErrorMessages == {"User already registered", "Email rate limit exceeded"}
InsertErrorMessages == {"duplicate key value violates unique constraint", "new row violates row-level security policy"}

Digits == {"0","1","2","3","4","5","6","7","8","9"}

(***************************************************************************)
(* Pure functions of the page.                                             *)
(***************************************************************************)
\* String.prototype.split with a one-character separator.
RECURSIVE SplitFrom(_, _, _, _)
SplitFrom(s, sep, i, cur) ==
    IF i > Len(s) THEN <<cur>>
    ELSE IF s[i] = sep THEN <<cur>> \o SplitFrom(s, sep, i + 1, <<>>)
    ELSE SplitFrom(s, sep, i + 1, Append(cur, s[i]))

split(s, sep) == SplitFrom(s, sep, 1, <<>>)

\* /^\d{4}20\d{2}$/.test(s)
studentIdPattern(s) ==
    /\ Len(s) = 8
    /\ \A i \in 1..4 : s[i] \in Digits
    /\ s[5] = "2"
    /\ s[6] = "0"
    /\ \A i \in 7..8 : s[i] \in Digits

\* The password policy of @/utils/validation: null, or the message of the
\* requirement the password misses.
StrongPasswords == {"Abc123!@"}
validatePassword(p) == IF p \in StrongPasswords THEN Null ELSE WeakPasswordMsg

\* validateForm: the message it passes to setError, Null when it returns true.
validateForm(d) ==
    LET passwordError == validatePassword(d.password) IN
    IF passwordError # Null THEN passwordError
    ELSE IF d.password # d.confirmPassword THEN PasswordMismatchMsg
    ELSE Null

\* Variant: the two conditions joined by && instead of ||.
EmailDomainErrorAndForOr(d) ==
    LET parts == split(d.email, "@") IN
    IF Len(parts) # 2 /\ (Len(parts) < 2 \/ (parts[2] # AshesiDomain /\ parts[2] # AucampusDomain))
    THEN EmailDomainMsg ELSE Null

\* The email-domain check of handleSubmit.
EmailDomainError(d) ==
    LET parts == split(d.email, "@") IN
    IF Len(parts) # 2 \/ (parts[2] # AshesiDomain /\ parts[2] # AucampusDomain)
    THEN EmailDomainMsg ELSE Null

\* Variant: the pattern /^\d{8}$/, without the literal 20.
StudentIdErrorAnyEightDigits(d) ==
    IF d.role = "student"
    THEN IF d.studentId = <<>> THEN StudentIdRequiredMsg
         ELSE IF ~(Len(d.studentId) = 8 /\ \A i \in 1..8 : d.studentId[i] \in Digits)
              THEN StudentIdFormatMsg
         ELSE Null
    ELSE Null

\* The student-ID check of handleSubmit.
StudentIdError(d) ==
    IF d.role = "student"
    THEN IF d.studentId = <<>> THEN StudentIdRequiredMsg
         ELSE IF ~studentIdPattern(d.studentId) THEN StudentIdFormatMsg
         ELSE Null
    ELSE Null

\* Variant: the email-domain check placed before validateForm.
ValidationErrorDomainFirst(d) ==
    IF EmailDomainError(d) # Null THEN EmailDomainError(d)
    ELSE IF validateForm(d) # Null THEN validateForm(d)
    ELSE StudentIdError(d)

\* The checks of handleSubmit in the order of the code, each returning early:
\* the message set by the first check that fails, Null when all pass.
ValidationError(d) ==
    IF validateForm(d) # Null THEN validateForm(d)
    ELSE IF EmailDomainError(d) # Null THEN EmailDomainError(d)
    ELSE StudentIdError(d)

\* role === 'student' ? 3 : 2
RoleId(r) == IF r = "student" THEN 3 ELSE 2

\* role === 'student' ? studentId : null
StudentIdOrNull(c) == IF c.role = "student" THEN {c.studentId} ELSE {}

\* The argument of supabase.auth.signUp.
SignUpRequest(c) ==
    [ email |-> c.email,
      password |-> c.password,
      first_name |-> c.firstName,
      last_name |-> c.lastName,
      student_id |-> StudentIdOrNull(c),
      role_id |-> RoleId(c.role) ]

\* Variant: student_id: studentId, whatever the role.
ProfileRowUnconditionalStudentId(c, authData) ==
    [ id |-> authData.user,
      fname |-> c.firstName,
      lname |-> c.lastName,
      email |-> c.email,
      role_id |-> RoleId(c.role),
      student_id |-> {c.studentId},
      password |-> ProfilePasswordPlaceholder ]

\* The row handed to supabase.from('users').insert.
ProfileRow(c, authData) ==
    [ id |-> authData.user,
      fname |-> c.firstName,
      lname |-> c.lastName,
      email |-> c.email,
      role_id |-> RoleId(c.role),
      student_id |-> StudentIdOrNull(c),
      password |-> ProfilePasswordPlaceholder ]

\* Variant: the two branches exchanged.
DestinationSwapped(r) == IF r = "student" THEN AdminDashboard ELSE StudentDashboard

\* The route the timer's callback pushes.
Destination(r) == IF r = "student" THEN StudentDashboard ELSE AdminDashboard

\* Variant: authError is not checked.
AuthErrorNotThrown(resp) == FALSE

\* if (authError) throw authError
AuthErrorThrown(resp) == resp.error # Null

\* if (profileError) throw profileError
ProfileErrorThrown(resp) == resp.error # Null

\* Variant: a fixed message instead of error.message.
CaughtMessageGeneric(err) == "Something went wrong"

\* catch (error) { setError(error.message) ... }: err is the thrown error's
\* message.
CaughtMessage(err) == err

\* Variant: isLoading is not set when the submission starts.
BusyAtStartUnset == FALSE

\* setIsLoading(true) at the start of handleSubmit.
BusyAtStart == TRUE

\* Variant: the displayed error is not cleared when the submission starts.
ErrorAtStartKept == error

\* setError(null) at the start of handleSubmit.
ErrorAtStart == Null

\* Variant: isLoading is not cleared in the catch block.
BusyAfterCatchKept == TRUE

\* setIsLoading(false) in the catch block.
BusyAfterCatch == FALSE

\* The delay handed to setTimeout.
TimerDelay == RedirectDelayMs

\* LoadingButton: the submit button starts no submission while loading.
SubmitEnabled == ~isLoading

(***************************************************************************)
(* The state after construction.                                           *)
(***************************************************************************)
NoLast == [kind |-> "none", msg |-> Null, role |-> Null, userId |-> NoUser,
           signUpCalls |-> 0, insertCalls |-> 0, waited |-> 0]

Init ==
    /\ email = <<>>
    /\ password = ""
    /\ confirmPassword = ""
    /\ firstName = ""
    /\ lastName = ""
    /\ studentId = <<>>
    /\ role = "student"
    /\ error = Null
    /\ isLoading = FALSE
    /\ showSuccess = FALSE
    /\ runs = <<>>
    /\ timers = <<>>
    /\ editsInFlight = 0
    /\ location = SignupPath
    /\ pushes = <<>>
    /\ accounts = {}
    /\ profiles = {}
    /\ last = NoLast

\* The state a render of the page closes over.
Closure ==
    [ email |-> email, password |-> password, confirmPassword |-> confirmPassword,
      firstName |-> firstName, lastName |-> lastName, studentId |-> studentId,
      role |-> role ]

Remove(seq, i) == SubSeq(seq, 1, i - 1) \o SubSeq(seq, i + 1, Len(seq))

Pending == runs # <<>> \/ timers # <<>>

(***************************************************************************)
(* Editing the draft.  The inputs stay editable while a submission is      *)
(* pending; the student-ID input is rendered for role student only.        *)
(***************************************************************************)
CanEdit == location = SignupPath /\ (Pending => editsInFlight < MaxEditsInFlight)

Edited == editsInFlight' = IF Pending THEN editsInFlight + 1 ELSE 0

setEmail ==
    /\ CanEdit
    /\ \E v \in EmailValues \ {email} : email' = v
    /\ Edited
    /\ UNCHANGED <<password, confirmPassword, firstName, lastName, studentId, role,
                   flags, runs, timers, location, pushes, services, last>>

setPassword ==
    /\ CanEdit
    /\ \E v \in PasswordValues \ {password} : password' = v
    /\ Edited
    /\ UNCHANGED <<email, confirmPassword, firstName, lastName, studentId, role,
                   flags, runs, timers, location, pushes, services, last>>

setConfirmPassword ==
    /\ CanEdit
    /\ \E v \in PasswordValues \ {confirmPassword} : confirmPassword' = v
    /\ Edited
    /\ UNCHANGED <<email, password, firstName, lastName, studentId, role,
                   flags, runs, timers, location, pushes, services, last>>

setFirstName ==
    /\ CanEdit
    /\ \E v \in FirstNameValues \ {firstName} : firstName' = v
    /\ Edited
    /\ UNCHANGED <<email, password, confirmPassword, lastName, studentId, role,
                   flags, runs, timers, location, pushes, services, last>>

setLastName ==
    /\ CanEdit
    /\ \E v \in LastNameValues \ {lastName} : lastName' = v
    /\ Edited
    /\ UNCHANGED <<email, password, confirmPassword, firstName, studentId, role,
                   flags, runs, timers, location, pushes, services, last>>

setStudentId ==
    /\ CanEdit
    /\ role = "student"
    /\ \E v \in StudentIdValues \ {studentId} : studentId' = v
    /\ Edited
    /\ UNCHANGED <<email, password, confirmPassword, firstName, lastName, role,
                   flags, runs, timers, location, pushes, services, last>>

setRole ==
    /\ CanEdit
    /\ \E v \in RoleValues \ {role} : role' = v
    /\ Edited
    /\ UNCHANGED <<email, password, confirmPassword, firstName, lastName, studentId,
                   flags, runs, timers, location, pushes, services, last>>

(***************************************************************************)
(* handleSubmit, in the three segments its two awaits cut it into.         *)
(***************************************************************************)
NewRun(c) ==
    [ pc |-> "signUp", c |-> c, authReq |-> SignUpRequest(c),
      authData |-> [error |-> Null, user |-> NoUser], row |-> {},
      signUpCalls |-> 1, insertCalls |-> 0 ]

\* From e.preventDefault() to the call of supabase.auth.signUp.
handleSubmit ==
    /\ location = SignupPath
    /\ SubmitEnabled
    /\ Len(runs) < MaxRuns
    /\ LET c == Closure
           verdict == ValidationError(c)
       IN  IF verdict # Null
           THEN /\ error' = verdict
                /\ isLoading' = FALSE
                /\ last' = [NoLast EXCEPT !.kind = "invalid", !.msg = verdict]
                /\ UNCHANGED <<runs, editsInFlight>>
           ELSE /\ error' = ErrorAtStart
                /\ isLoading' = BusyAtStart
                /\ runs' = Append(runs, NewRun(c))
                /\ editsInFlight' = 0
                /\ last' = [NoLast EXCEPT !.kind = "pending"]
    /\ UNCHANGED <<draft, showSuccess, timers, location, pushes, services>>

\* The catch block, entered by activation i with the thrown error's message.
Catch(i, message, kind) ==
    /\ error' = CaughtMessage(message)
    /\ isLoading' = BusyAfterCatch
    /\ runs' = Remove(runs, i)
    /\ editsInFlight' = IF Remove(runs, i) = <<>> /\ timers = <<>> THEN 0 ELSE editsInFlight
    /\ last' = [NoLast EXCEPT !.kind = kind, !.msg = message,
                              !.userId = runs[i].authData.user,
                              !.signUpCalls = runs[i].signUpCalls,
                              !.insertCalls = runs[i].insertCalls]
    /\ UNCHANGED <<showSuccess, timers>>

\* What the auth service may answer: an error, or the new account's identifier.
SignUpResponses ==
    [error : AuthErrorMessages, user : {NoUser}]
        \cup [error : {Null}, user : UserIds \ accounts]

\* From the return of supabase.auth.signUp to the call of insert.
afterSignUp(i) ==
    /\ runs[i].pc = "signUp"
    /\ \E authData \in SignUpResponses :
          /\ accounts' = IF authData.user = NoUser THEN accounts
                         ELSE accounts \cup {authData.user}
          /\ IF AuthErrorThrown(authData)
             THEN Catch(i, authData.error, "authFailed")
             ELSE /\ runs' = [runs EXCEPT ![i] =
                                [runs[i] EXCEPT !.pc = "insert",
                                                !.authData = authData,
                                                !.row = {ProfileRow(runs[i].c, authData)},
                                                !.insertCalls = runs[i].insertCalls + 1]]
                  /\ UNCHANGED <<flags, timers, editsInFlight, last>>
    /\ UNCHANGED <<draft, location, pushes, profiles>>

\* What the data store may answer to the insert.
InsertResponses == [error : InsertErrorMessages \cup {Null}]

\* From the return of insert to the end of handleSubmit.
afterInsert(i) ==
    /\ runs[i].pc = "insert"
    /\ \E resp \in InsertResponses :
          /\ profiles' = IF resp.error = Null
                         THEN profiles \cup {r.id : r \in runs[i].row}
                         ELSE profiles
          /\ IF ProfileErrorThrown(resp)
             THEN Catch(i, resp.error, "insertFailed")
             ELSE /\ showSuccess' = TRUE
                  /\ timers' = Append(timers, [role |-> runs[i].c.role,
                                               delay |-> TimerDelay, elapsed |-> 0])
                  /\ runs' = Remove(runs, i)
                  /\ last' = [NoLast EXCEPT !.kind = "succeeded",
                                            !.role = runs[i].c.role,
                                            !.userId = runs[i].authData.user,
                                            !.signUpCalls = runs[i].signUpCalls,
                                            !.insertCalls = runs[i].insertCalls]
                  /\ UNCHANGED <<error, isLoading, editsInFlight>>
    /\ UNCHANGED <<draft, location, pushes, accounts>>

(***************************************************************************)
(* The redirect timer and the router.                                      *)
(***************************************************************************)
TickMs == RedirectDelayMs \div 2

Min(a, b) == IF a < b THEN a ELSE b

\* Time passes while a timer has not run out.
Tick ==
    /\ \E j \in 1..Len(timers) : timers[j].elapsed < timers[j].delay
    /\ timers' = [j \in 1..Len(timers) |->
                    [timers[j] EXCEPT !.elapsed = Min(@ + TickMs, timers[j].delay)]]
    /\ UNCHANGED <<draft, flags, runs, editsInFlight, location, pushes, services, last>>

\* The callback handed to setTimeout.
timerFires(j) ==
    /\ timers[j].elapsed >= timers[j].delay
    /\ pushes' = Append(pushes, Destination(timers[j].role))
    /\ location' = Destination(timers[j].role)
    /\ timers' = Remove(timers, j)
    /\ editsInFlight' = IF runs = <<>> /\ Remove(timers, j) = <<>> THEN 0 ELSE editsInFlight
    /\ last' = [last EXCEPT !.kind = "navigated", !.waited = timers[j].elapsed]
    /\ email' = <<>>
    /\ password' = ""
    /\ confirmPassword' = ""
    /\ firstName' = ""
    /\ lastName' = ""
    /\ studentId' = <<>>
    /\ role' = "student"
    /\ UNCHANGED <<flags, runs, services>>

\* The user follows one of the page's links: the page is unmounted and its
\* draft discarded; pending activations and timers are left as they are.
leavePage ==
    /\ location = SignupPath
    /\ \E href \in LinkHrefs : location' = href
    /\ email' = <<>>
    /\ password' = ""
    /\ confirmPassword' = ""
    /\ firstName' = ""
    /\ lastName' = ""
    /\ studentId' = <<>>
    /\ role' = "student"
    /\ UNCHANGED <<flags, runs, timers, editsInFlight, pushes, services, last>>

Next ==
    \/ setEmail
    \/ setPassword
    \/ setConfirmPassword
    \/ setFirstName
    \/ setLastName
    \/ setStudentId
    \/ setRole
    \/ handleSubmit
    \/ \E i \in 1..Len(runs) : afterSignUp(i)
    \/ \E i \in 1..Len(runs) : afterInsert(i)
    \/ Tick
    \/ \E j \in 1..Len(timers) : timerFires(j)
    \/ leavePage

Spec == Init /\ [][Next]_vars

\* The browser's event loop lets time pass and runs a timer that is due.
FairSpec ==
    /\ Spec
    /\ WF_vars(Tick)
    /\ WF_vars(\E j \in 1..Len(timers) : timerFires(j))

(***************************************************************************)
(* Properties.                                                             *)
(***************************************************************************)
Dashboards == {"/dashboard/student", "/dashboard/admin"}

\* s ends with suffix.
EndsWith(s, suffix) ==
    /\ Len(s) >= Len(suffix)
    /\ SubSeq(s, Len(s) - Len(suffix) + 1, Len(s)) = suffix

EndsInAllowedDomain(e) ==
    \/ EndsWith(e, <<"@">> \o AshesiDomain)
    \/ EndsWith(e, <<"@">> \o AucampusDomain)

\* One "@", followed by one of the two allowed domains.
AllowedEmail(e) ==
    /\ Cardinality({i \in 1..Len(e) : e[i] = "@"}) = 1
    /\ EndsInAllowedDomain(e)

\* Four digits, "20", two digits.
WellFormedStudentId(s) ==
    /\ Len(s) = 8
    /\ SubSeq(s, 5, 6) = <<"2", "0">>
    /\ \A i \in {1, 2, 3, 4, 7, 8} : s[i] \in Digits

PasswordIsStrong == validatePassword(password) = Null

StudentIdMessages == {StudentIdRequiredMsg, StudentIdFormatMsg}

\* The message of the first failing check of the current draft, in the order
\* strength, equality, domain, student ID; Null when no check fails.
FirstFailingCheck ==
    IF ~PasswordIsStrong THEN validatePassword(password)
    ELSE IF password # confirmPassword THEN PasswordMismatchMsg
    ELSE IF ~AllowedEmail(email) THEN EmailDomainMsg
    ELSE IF role = "student" /\ studentId = <<>> THEN StudentIdRequiredMsg
    ELSE IF role = "student" /\ ~WellFormedStudentId(studentId) THEN StudentIdFormatMsg
    ELSE Null

\* A step of handleSubmit that issues no request to the external services.
NoExternalCall == runs' = runs /\ accounts' = accounts /\ profiles' = profiles

\* C1: after a submission whose account creation succeeded and whose profile
\* insert failed, the insert error's message is shown, the success flag is not
\* set, no redirect is scheduled or performed, and the account created stays
\* in the auth service with no profile row.
C1_InsertFailureShownNotCompensated ==
    last.kind = "insertFailed" =>
        /\ last.msg \in InsertErrorMessages
        /\ error = last.msg
        /\ ~showSuccess
        /\ timers = <<>>
        /\ pushes = <<>>
        /\ location \notin Dashboards
        /\ last.userId \in accounts
        /\ last.userId \notin profiles

C1_Witness ==
    /\ last.kind = "insertFailed"
    /\ error \in InsertErrorMessages
    /\ last.userId \in accounts \ profiles

RedirectSafety ==
    /\ last.kind \in {"succeeded", "navigated"} =>
          /\ showSuccess
          /\ last.userId \in accounts
          /\ last.userId \in profiles
    /\ last.kind = "succeeded" =>
          /\ pushes = <<>>
          /\ Len(timers) = 1
          /\ timers[1].role = last.role
          /\ timers[1].delay = RedirectDelayMs
    /\ pushes # <<>> =>
          /\ showSuccess
          /\ last.kind = "navigated"
          /\ pushes = << IF last.role = "student" THEN "/dashboard/student"
                         ELSE "/dashboard/admin" >>
          /\ location = pushes[1]
          /\ last.waited >= RedirectDelayMs
          /\ timers = <<>>

\* C2: after both calls succeeded showSuccess is set and one timer of the fixed
\* delay is pending; the router is pushed at most once, only after showSuccess
\* was set and the delay has elapsed, to /dashboard/student for a student's
\* submission and to /dashboard/admin otherwise; and a successful submission
\* is followed by that push.
C2_SuccessThenRedirectByRole ==
    /\ []RedirectSafety
    /\ (last.kind = "succeeded") ~> (pushes # <<>>)

C2_Witness ==
    /\ last.kind = "navigated"
    /\ last.role = "admin"
    /\ pushes = <<"/dashboard/admin">>
    /\ showSuccess

\* C3: an activation has requested the insert only when its account creation
\* has returned without error (and the account exists); when account creation
\* errors no insert is requested and the auth error's message is shown.
C3_InsertOnlyAfterAccountCreated ==
    /\ \A i \in 1..Len(runs) :
          /\ runs[i].signUpCalls = 1
          /\ runs[i].pc = "signUp" => runs[i].insertCalls = 0 /\ runs[i].row = {}
          /\ runs[i].insertCalls > 0 =>
                /\ runs[i].pc = "insert"
                /\ runs[i].authData.error = Null
                /\ runs[i].authData.user \in accounts
    /\ last.kind = "authFailed" =>
          /\ last.msg \in AuthErrorMessages
          /\ error = last.msg
          /\ last.insertCalls = 0
          /\ last.userId = NoUser
    /\ profiles \subseteq accounts

C3_Witness ==
    /\ last.kind = "authFailed"
    /\ error \in AuthErrorMessages
    /\ last.insertCalls = 0

ValidationOrderStep ==
    handleSubmit =>
          IF FirstFailingCheck # Null
          THEN error' = FirstFailingCheck /\ ~isLoading' /\ NoExternalCall
          ELSE error' = Null /\ Len(runs') = Len(runs) + 1

\* C4: every run of handleSubmit shows the message of the first failing check
\* in the order strength, equality, domain, student ID, and then issues no
\* account-creation request; it issues one only when no check fails.
C4_ValidationOrder == [][ValidationOrderStep]_vars

C4_Witness ==
    /\ last.kind = "invalid"
    /\ error = PasswordMismatchMsg
    /\ ~AllowedEmail(email)
    /\ role = "student"
    /\ ~WellFormedStudentId(studentId)
    /\ runs = <<>>

DomainErrorAlwaysStep ==
    (handleSubmit /\ ~EndsInAllowedDomain(email)) =>
          (error' = EmailDomainMsg /\ NoExternalCall)

\* C5 as stated: every run of handleSubmit on an email that does not end in
\* @ashesi.edu.gh or @aucampus.onmicrosoft.com shows the domain error and
\* makes no external call.
C5_Original == [][DomainErrorAlwaysStep]_vars

DomainErrorStep ==
    (handleSubmit /\ ~EndsInAllowedDomain(email)) =>
          /\ last'.kind = "invalid"
          /\ error' # Null
          /\ NoExternalCall
          /\ (PasswordIsStrong /\ password = confirmPassword) => error' = EmailDomainMsg

\* C5 as amended: every run of handleSubmit on such an email fails validation
\* and makes no external call; the error shown is the domain error when the
\* password passes the strength check and equals confirmPassword (otherwise
\* it is the error of the password check that fails first).
C5_DomainError == [][DomainErrorStep]_vars

C5_Witness ==
    /\ last.kind = "invalid"
    /\ error = EmailDomainMsg
    /\ ~EndsInAllowedDomain(email)
    /\ email # <<>>
    /\ runs = <<>>

StudentIdCheckStep ==
    handleSubmit =>
          /\ (role = "student" /\ ~WellFormedStudentId(studentId)) =>
                /\ last'.kind = "invalid"
                /\ error' # Null
                /\ NoExternalCall
          /\ (role = "student" /\ studentId = <<"1","2","3","4","2","0","2","3">>) =>
                error' \notin StudentIdMessages
          /\ role # "student" =>
                /\ error' \notin StudentIdMessages
                /\ (PasswordIsStrong /\ password = confirmPassword /\ AllowedEmail(email)) =>
                      (error' = Null /\ Len(runs') = Len(runs) + 1)

\* C6: for role student every run of handleSubmit on a studentId that is
\* empty or not of the form four digits, 20, two digits fails validation and
\* issues no account-creation request; 12342023 raises no student-ID error;
\* for another role the studentId raises no error and does not keep an
\* otherwise valid draft from being submitted.
C6_StudentIdCheck == [][StudentIdCheckStep]_vars

C6_Witness ==
    /\ last.kind = "invalid"
    /\ error = StudentIdFormatMsg
    /\ role = "student"
    /\ studentId = <<"1","2","3","4","0","0","9","9">>
    /\ runs = <<>>

\* C7: at most one activation of handleSubmit is suspended at an external call
\* at any time, and while one is, isLoading is set and handleSubmit cannot
\* start.
C7_OneSubmissionInFlight ==
    /\ Len(runs) <= 1
    /\ runs # <<>> => (isLoading /\ ~ENABLED handleSubmit)

C7_Witness ==
    /\ Len(runs) = 1
    /\ runs[1].pc = "insert"
    /\ isLoading
    /\ location = SignupPath

InsertsRequested == Cardinality({i \in 1..Len(runs) : runs[i].pc = "insert"})

AbandonedStep ==
    location \in LinkHrefs =>
          /\ location' = location
          /\ pushes' = pushes
          /\ InsertsRequested' <= InsertsRequested
          /\ Len(timers') <= Len(timers)

\* C8: once the user has left the page through one of its links, no redirect
\* is performed and an arriving response causes nothing further (no insert
\* request, no timer).
C8_LeavingAbandonsRedirect == [][AbandonedStep]_vars

\* C9: after a failed submission (validation, account creation or insert)
\* isLoading is cleared, the error that ended it is shown, showSuccess is not
\* set, nothing of it is pending, it has made at most one call of each kind,
\* and handleSubmit can start again; a submission that has started shows no
\* earlier error.
C9_FailureReturnsToIdle ==
    /\ last.kind \in {"invalid", "authFailed", "insertFailed"} =>
          /\ ~isLoading
          /\ error = last.msg
          /\ error # Null
          /\ ~showSuccess
          /\ runs = <<>>
          /\ timers = <<>>
          /\ last.signUpCalls <= 1
          /\ last.insertCalls <= 1
          /\ last.kind = "invalid" => last.signUpCalls = 0
          /\ location = SignupPath => ENABLED handleSubmit
    /\ \A i \in 1..Len(runs) : runs[i].signUpCalls <= 1 /\ runs[i].insertCalls <= 1
    /\ last.kind = "pending" => error = Null

C9_Witness ==
    /\ last.kind = "authFailed"
    /\ error \in AuthErrorMessages
    /\ ~isLoading
    /\ accounts # {}
    /\ location = SignupPath

\* C10: the row an activation inserts carries the fields of its own
\* account-creation request: role identifier 3 for student and 2 otherwise,
\* the submitted studentId for a student and null otherwise, the same email
\* and names; and its key is the identifier its account creation returned.
C10_SameFieldsInBothRequests ==
    \A i \in 1..Len(runs) :
        runs[i].pc = "insert" =>
            \E r \in runs[i].row :
                LET q == runs[i].authReq
                    c == runs[i].c
                IN  /\ runs[i].row = {r}
                    /\ q.role_id = (IF c.role = "student" THEN 3 ELSE 2)
                    /\ r.role_id = q.role_id
                    /\ q.student_id = (IF c.role = "student" THEN {c.studentId} ELSE {})
                    /\ r.student_id = q.student_id
                    /\ q.email = c.email /\ r.email = q.email
                    /\ q.first_name = c.firstName /\ r.fname = q.first_name
                    /\ q.last_name = c.lastName /\ r.lname = q.last_name
                    /\ r.id = runs[i].authData.user
                    /\ r.id \in accounts \ profiles

C10_Witness ==
    \E i \in 1..Len(runs) :
        /\ runs[i].pc = "insert"
        /\ runs[i].c.role = "admin"
        /\ runs[i].c.studentId # <<>>
        /\ runs[i].authReq.student_id = {}
        /\ runs[i].authData.user \in accounts

SucceededState ==
    showSuccess =>
        /\ isLoading
        /\ error = Null
        /\ runs = <<>>
        /\ ~ENABLED handleSubmit

\* C11: in every reachable state where showSuccess is true, isLoading is still
\* true, no error is displayed and handleSubmit cannot start; and showSuccess,
\* once true, is never reset to false.
C11_SuccessKeepsBusyAndNoError ==
    /\ []SucceededState
    /\ [][showSuccess => showSuccess']_vars

C11_Witness ==
    /\ showSuccess
    /\ isLoading
    /\ error = Null
    /\ Len(timers) = 1
    /\ accounts # profiles
    /\ location = SignupPath

====
